---- MODULE Spec2Model ----
(***************************************************************************)
(* A model of the rtldavis receiver: the CRC and frame validation of       *)
(* protocol.Parser, the DSP worker process, the result-queue reader and    *)
(* the hop controller of __main__.main_async.                              *)
(*                                                                         *)
(* Time is counted in ticks of 1/80 s (12.5 ms), the largest unit in which *)
(* the dwell time 2.5625 s + id * 0.0625 s, the deadline slack 0.3 s and   *)
(* the early-packet threshold 0.5 s are all whole numbers.                 *)
(***************************************************************************)
EXTENDS Integers, Sequences, FiniteSets, TLC

(***************************************************************************)
(* Bounds of the model.                                                    *)
(***************************************************************************)
MaxPkts == 2       \* packets sliced out of one block
MaxBlocks == 2     \* blocks streamed by the driver in one run
MaxPending == 2    \* set() calls counted between two clears of the event
TimeStep == 5      \* ticks by which the clock advances in one step
MaxMeas == 10      \* parse calls on the Parser examined on its own
MaxHops == 2       \* hop calls on it

(***************************************************************************)
(* Python values.                                                          *)
(***************************************************************************)
None == -1

(***************************************************************************)
(* Bit operations on naturals.                                             *)
(***************************************************************************)
RECURSIVE BitAnd(_, _)
BitAnd(a, b) ==
    IF a = 0 \/ b = 0 THEN 0
    ELSE ((a % 2) * (b % 2)) + 2 * BitAnd(a \div 2, b \div 2)

RECURSIVE BitXor(_, _)
BitXor(a, b) ==
    IF a = 0 THEN b
    ELSE IF b = 0 THEN a
    ELSE (((a % 2) + (b % 2)) % 2) + 2 * BitXor(a \div 2, b \div 2)

BitOr(a, b) == a + b - BitAnd(a, b)

\* ^ on bytes, tabulated once, and on 16-bit values byte by byte
ByteXor == [a \in 0..255 |-> [b \in 0..255 |-> BitXor(a, b)]]
Xor16(a, b) ==
    256 * ByteXor[a \div 256][b \div 256] + ByteXor[a % 256][b % 256]

\* x << k on a numpy uint16
Shl16(x, k) == (x * (2 ^ k)) % 65536

(***************************************************************************)
(* crc.py: CRC("CCITT-16", 0, 0x1021, 0)                                   *)
(***************************************************************************)
crc_init == 0
crc_poly == 4129

\* one round of the inner loop of CRC._new_table
table_round(crc) ==
    IF BitAnd(crc, 32768) # 0 THEN BitXor(Shl16(crc, 1), crc_poly)
    ELSE Shl16(crc, 1)

RECURSIVE table_rounds(_, _)
table_rounds(crc, n) ==
    IF n = 0 THEN crc ELSE table_rounds(table_round(crc), n - 1)

\* CRC._new_table: table[i] = 8 rounds from np.uint16(i) << 8
tbl == [i \in 0..255 |-> table_rounds(Shl16(i, 8), 8)]

\* a loop body that indexes the table with the low byte of crc
checksum_step_low_byte(crc, byte) ==
    Xor16(Shl16(crc, 8), tbl[ByteXor[crc % 256][byte]])

\* the loop body of CRC.checksum
checksum_step(crc, byte) ==
    Xor16(Shl16(crc, 8), tbl[ByteXor[crc \div 256][byte]])

RECURSIVE checksum_from(_, _, _)
checksum_from(crc, data, i) ==
    IF i > Len(data) THEN crc
    ELSE checksum_from(checksum_step(crc, data[i]), data, i + 1)

\* CRC.checksum
checksum(data) == checksum_from(crc_init, data, 1)

(***************************************************************************)
(* protocol.py                                                             *)
(***************************************************************************)
\* the first of the three swaps only
swap_nibbles(b0) == BitOr(BitAnd(b0, 240) \div 16, BitAnd(b0, 15) * 16)

swap_bit_order(b0) ==
    LET b1 == BitOr(BitAnd(b0, 240) \div 16, BitAnd(b0, 15) * 16)
        b2 == BitOr(BitAnd(b1, 204) \div 4, BitAnd(b1, 51) * 4)
    IN  BitOr(BitAnd(b2, 170) \div 2, BitAnd(b2, 85) * 2)

\* Sensor(Enum): the nibbles that name a sensor
Sensor == {2, 4, 5, 6, 7, 8, 9, 10, 14}

channels == <<
    902355835, 902857585, 903359336, 903861086, 904362837, 904864587,
    905366338, 905868088, 906369839, 906871589, 907373340, 907875090,
    908376841, 908878591, 909380342, 909882092, 910383843, 910885593,
    911387344, 911889094, 912390845, 912892595, 913394346, 913896096,
    914397847, 914899597, 915401347, 915903098, 916404848, 916906599,
    917408349, 917910100, 918411850, 918913601, 919415351, 919917102,
    920418852, 920920603, 921422353, 921924104, 922425854, 922927605,
    923429355, 923931106, 924432856, 924934607, 925436357, 925938108,
    926439858, 926941609, 927443359 >>

channel_count == Len(channels)

\* indexed from 0 as in the source: hop_pattern[i] is HopPattern(i)
hop_pattern == <<
    0, 19, 41, 25, 8, 47, 32, 13, 36, 22, 3, 29, 44, 16, 5, 27, 38, 10,
    49, 21, 2, 30, 42, 14, 48, 7, 24, 34, 45, 1, 17, 39, 26, 9, 31, 50,
    37, 12, 20, 33, 4, 43, 28, 15, 35, 6, 40, 11, 23, 46, 18 >>

HopPattern(i) == hop_pattern[i + 1]
ChannelFreq(c) == channels[c + 1]

\* new_packet_config: the preamble, as the bits the slicer packs MSB first
preamble == <<1, 1, 0, 0, 1, 0, 1, 1, 1, 0, 0, 0, 1, 0, 0, 1>>

\* bytes of a bit sequence packed MSB first, as Demodulator._slice packs them
RECURSIVE PackBits(_, _, _)
PackBits(bits, i, acc) ==
    IF i > Len(bits) THEN acc
    ELSE LET k == ((i - 1) \div 8) + 1
         IN  PackBits(bits, i + 1, [acc EXCEPT ![k] = (acc[k] * 2) + bits[i]])

\* swap_bit_order tabulated once; bytes(swap_bit_order(b) for b in pkt.data)
SwapTable == [b \in 0..255 |-> swap_bit_order(b)]
SwapAll(data) == [i \in 1..Len(data) |-> SwapTable[data[i]]]

(***************************************************************************)
(* Parser: the fields that hopping and parsing read and write.             *)
(* channel_freq_err is a dict: a function whose domain is its key set.     *)
(***************************************************************************)
ParserNew(h) ==
    [hop_idx |-> h, channel_freq_err |-> << >>, current_freq_err |-> 0]

DictSet(d, k, v) ==
    [c \in (DOMAIN d) \cup {k} |-> IF c = k THEN v ELSE d[c]]

\* Parser.hop: returns the parser after the call and the Hop it returns
hop(pr) ==
    LET channel_idx == HopPattern(pr.hop_idx)
        err == IF channel_idx \in DOMAIN pr.channel_freq_err
               THEN pr.channel_freq_err[channel_idx]
               ELSE pr.current_freq_err
    IN  [parser |-> [pr EXCEPT !.current_freq_err = err],
         hop |-> [channel_idx |-> channel_idx,
                  channel_freq |-> ChannelFreq(channel_idx),
                  freq_error |-> err]]

\* Parser.next_hop
next_hop(pr) ==
    hop([pr EXCEPT !.hop_idx = (pr.hop_idx + 1) % channel_count])

\* Parser.rand_hop, r the value random.randint(0, channel_count - 1) returns
\* rand_hop that also clears the frequency-error memory
rand_hop_forgets(pr, r) ==
    hop([pr EXCEPT !.hop_idx = r, !.channel_freq_err = << >>])

rand_hop(pr, r) == hop([pr EXCEPT !.hop_idx = r])

\* An attribute read obj.name raises AttributeError when the tuple has no such field
AttributeError(obj, name) == name \notin DOMAIN obj

\* The value written by  sdr.center_freq = hop.channel_freq + hop.freq_corr
TuneValue(h) == h.channel_freq + h["freq_corr"]

\* Parser.__init__: dwell_time = 2.5625 + (station_id or 0) * 0.0625, in ticks
dwell_time(sid) == 205 + (IF sid = None THEN 0 ELSE sid) * 5

(***************************************************************************)
(* Parser.parse.  A packet is [data, ferr]: the 10 sliced bytes and the    *)
(* frequency error that lines 156-161 measure on its preamble tail.        *)
(***************************************************************************)
\* the CRC test of line 150 on the bit-reversed frame
crc_ok(data) == checksum(SubSeq(data, 1, 8)) = 0

\* An Optional[float]: the fraction num / den, or None
Float(num, den) == [num |-> num, den |-> den]
NoFloat == [num |-> 0, den |-> 0]

\* decoders/temperature.py: decode_temperature(data, logger)
decode_temperature(data, logger) == Float(data[4] * 256 + data[5], 160)

\* decoders/rain.py: RainTotalDecoder.  The module keeps one instance,
\* _rain_total_decoder_instance, None until the first call.
NoInstance ==
    [exists |-> FALSE, last_clicks |-> None, total_clicks |-> 0,
     rollover_count |-> 0]
RainTotalDecoderNew ==
    [exists |-> TRUE, last_clicks |-> None, total_clicks |-> 0,
     rollover_count |-> 0]

\* RainTotalDecoder.decode: the decoder after the call, and what it returns
RainTotalDecoder_decode(self, data) ==
    LET current_clicks == BitAnd(data[4], 127)
        first == self.last_clicks = None
        rollover == ~first /\ current_clicks < self.last_clicks
        clicks_since_last ==
            IF rollover THEN (128 - self.last_clicks) + current_clicks
            ELSE current_clicks - self.last_clicks
        total_clicks ==
            IF first THEN current_clicks
            ELSE IF clicks_since_last > 0
                 THEN self.total_clicks + clicks_since_last
            ELSE self.total_clicks
    IN  [self |-> [self EXCEPT
                     !.last_clicks = current_clicks,
                     !.total_clicks = total_clicks,
                     !.rollover_count = IF rollover THEN @ + 1 ELSE @],
         out |-> Float(total_clicks, 100)]

\* decode_rain_total(data, logger) with the module's instance before the call
decode_rain_total(instance, data, logger) ==
    RainTotalDecoder_decode(
        IF instance.exists THEN instance ELSE RainTotalDecoderNew, data)

\* A call that passes nargs positional arguments raises TypeError unless the
\* function declares as many parameters: decode_temperature(data, logger)
\* and decode_rain_total(data, logger) declare two, none with a default
TypeError(fn, nargs) ==
    nargs # [decode_temperature |-> 2, decode_rain_total |-> 2][fn]

\* Parser._parse_sensor_data: the decoded fields.  Lines 258 and 264 pass one
\* argument, msg_data; an exception of the decoder call is logged at line 278
\* and leaves the field None, so the call of line 264 never reaches the
\* module's decoder instance.
parse_sensor_data(sensor, msg_data) ==
    [temperature |->
         IF sensor = 8 /\ ~TypeError("decode_temperature", 1)
         THEN decode_temperature(msg_data, "logger") ELSE NoFloat,
     rain_total |->
         IF sensor = 14 /\ ~TypeError("decode_rain_total", 1)
         THEN decode_rain_total(NoInstance, msg_data, "logger").out
         ELSE NoFloat]

\* the Message built for a frame that passed the CRC test and the id filter
Message(pkt, data) ==
    LET msg_data == SubSeq(data, 1, 8)
        sensor_id == msg_data[1] \div 16
        decoded == IF sensor_id \in Sensor
                   THEN parse_sensor_data(sensor_id, msg_data)
                   ELSE [temperature |-> NoFloat, rain_total |-> NoFloat]
    IN  [packet |-> pkt,
         id |-> BitAnd(msg_data[1], 7),
         sensor |-> IF sensor_id \in Sensor THEN sensor_id ELSE None,
         raw_sensor_id |-> IF sensor_id \in Sensor THEN None ELSE sensor_id,
         wind_speed |-> msg_data[2],
         wind_direction |-> msg_data[3],
         temperature |-> decoded.temperature,
         rain_total |-> decoded.rain_total]

\* parse_one with the CRC test of lines 150-152 deleted
parse_one_without_crc_test(st, pkt, sid) ==
    LET data == SwapAll(pkt.data)
        pr == st.parser
        ch == HopPattern(pr.hop_idx)
        recorded == [pr EXCEPT
                       !.channel_freq_err =
                           DictSet(@, ch, pr.current_freq_err + pkt.ferr),
                       !.current_freq_err = @ + pkt.ferr]
        msg_id == BitAnd(data[1], 7)
    IN  IF data \in st.seen THEN st
        ELSE IF sid # None /\ msg_id # sid
             THEN [st EXCEPT !.seen = @ \cup {data}, !.parser = recorded]
        ELSE [seen |-> st.seen \cup {data},
              msgs |-> Append(st.msgs, Message(pkt, data)),
              parser |-> recorded]

\* parse_one without the station filter of lines 170-172
parse_one_without_filter(st, pkt, sid) ==
    LET data == SwapAll(pkt.data)
        pr == st.parser
        ch == HopPattern(pr.hop_idx)
        recorded == [pr EXCEPT
                       !.channel_freq_err =
                           DictSet(@, ch, pr.current_freq_err + pkt.ferr),
                       !.current_freq_err = @ + pkt.ferr]
    IN  IF data \in st.seen THEN st
        ELSE IF ~crc_ok(data) THEN [st EXCEPT !.seen = @ \cup {data}]
        ELSE [seen |-> st.seen \cup {data},
              msgs |-> Append(st.msgs, Message(pkt, data)),
              parser |-> recorded]

\* parse_one that drops a frame whose sensor nibble names no Sensor
parse_one_dropping_unknown(st, pkt, sid) ==
    LET data == SwapAll(pkt.data)
        pr == st.parser
        ch == HopPattern(pr.hop_idx)
        recorded == [pr EXCEPT
                       !.channel_freq_err =
                           DictSet(@, ch, pr.current_freq_err + pkt.ferr),
                       !.current_freq_err = @ + pkt.ferr]
        msg_id == BitAnd(data[1], 7)
    IN  IF data \in st.seen THEN st
        ELSE IF ~crc_ok(data) THEN [st EXCEPT !.seen = @ \cup {data}]
        ELSE IF (sid # None /\ msg_id # sid) \/ (data[1] \div 16) \notin Sensor
             THEN [st EXCEPT !.seen = @ \cup {data}, !.parser = recorded]
        ELSE [seen |-> st.seen \cup {data},
              msgs |-> Append(st.msgs, Message(pkt, data)),
              parser |-> recorded]

\* one iteration of the loop of Parser.parse; st = [seen, msgs, parser]
parse_one(st, pkt, sid) ==
    LET data == SwapAll(pkt.data)
        pr == st.parser
        ch == HopPattern(pr.hop_idx)
        recorded == [pr EXCEPT
                       !.channel_freq_err =
                           DictSet(@, ch, pr.current_freq_err + pkt.ferr),
                       !.current_freq_err = @ + pkt.ferr]
        msg_id == BitAnd(data[1], 7)
    IN  IF data \in st.seen THEN st
        ELSE IF ~crc_ok(data) THEN [st EXCEPT !.seen = @ \cup {data}]
        ELSE IF sid # None /\ msg_id # sid
             THEN [st EXCEPT !.seen = @ \cup {data}, !.parser = recorded]
        ELSE [seen |-> st.seen \cup {data},
              msgs |-> Append(st.msgs, Message(pkt, data)),
              parser |-> recorded]

RECURSIVE parse_from(_, _, _, _)
parse_from(st, pkts, i, sid) ==
    IF i > Len(pkts) THEN st
    ELSE parse_from(parse_one(st, pkts[i], sid), pkts, i + 1, sid)

\* Parser.parse: [msgs, parser] for the parser pr with station filter sid
parse(pr, pkts, sid) ==
    parse_from([seen |-> {}, msgs |-> << >>, parser |-> pr], pkts, 1, sid)

(***************************************************************************)
(* Frames offered to the parser, written as they read after bit reversal.  *)
(* Every sliced frame begins with the preamble, so bytes 0-1 are the       *)
(* bit-reversed preamble bytes.                                            *)
(***************************************************************************)
PreambleBytes == PackBits(preamble, 1, <<0, 0>>)
Header == SwapAll(PreambleBytes)

\* the payload of test_dsp.py: temperature 75.0 F, station 2
T1Payload == <<130, 0, 0, 2, 238, 0>>

CrcBytes(d) == <<checksum(d) \div 256, checksum(d) % 256>>

\* CRC in bytes 8-9 over bytes 2-7: the layout of the over-the-air frame
FrameSpecLayout == Header \o T1Payload \o CrcBytes(T1Payload)
\* CRC in bytes 6-7 over bytes 0-5
FrameCodeLayout ==
    LET h == Header \o SubSeq(T1Payload, 1, 4)
    IN  h \o CrcBytes(h) \o SubSeq(T1Payload, 5, 6)
\* one bit of FrameCodeLayout flipped
FrameCodeBad == [FrameCodeLayout EXCEPT ![4] = BitXor(@, 16)]

Frames == <<FrameSpecLayout, FrameCodeLayout, FrameCodeBad>>
FreqErrs == <<-150, 200, -70>>

\* the packets the slicer can hand to the parser in the model
Packets == {[data |-> SwapAll(Frames[i]), ferr |-> FreqErrs[i]] : i \in 1..Len(Frames)}

\* Demodulator._slice returns each sliced byte string once
PktLists(n) ==
    {l \in UNION {[1..k -> Packets] : k \in 0..n} :
        \A i, j \in 1..Len(l) : i # j => l[i].data # l[j].data}

StationIds == {None, 2, 3}
InitHopIdx == {7, 50}
RandInts == 0..(channel_count - 1)

(***************************************************************************)
(* dsp.py.  A complex sample is a pair <<re, im>> of integers in units of  *)
(* 1/638, the unit in which the table of ByteToCmplxLUT is integral; the   *)
(* FIR coefficients are in units of 1/100.  The quantizer reads only the   *)
(* sign of the discriminator output, which no positive scale changes, so   *)
(* the discriminator is kept as its numerator.                             *)
(***************************************************************************)
symbol_length == 14
preamble_symbols == 16
packet_symbols == 80
block_size == 512

\* a configuration whose buffer length rounds packet_length / block_size + 2 up
PacketConfigCeil(L) ==
    [symbol_length |-> L,
     preamble_length |-> preamble_symbols * L,
     packet_length |-> packet_symbols * L,
     buffer_length |->
         ((packet_symbols * L + block_size - 1) \div block_size + 2) * block_size]

\* PacketConfig.__init__ for symbol length L, as new_packet_config calls it
PacketConfig(L) ==
    [symbol_length |-> L,
     preamble_length |-> preamble_symbols * L,
     packet_length |-> packet_symbols * L,
     buffer_length |-> ((packet_symbols * L) \div block_size + 2) * block_size]

preamble_length == PacketConfig(symbol_length).preamble_length
packet_length == PacketConfig(symbol_length).packet_length
buffer_length == PacketConfig(symbol_length).buffer_length

\* ByteToCmplxLUT.lut[b] = (b - 127.4) / 127.6
lut(b) == 5 * b - 637

\* np.roll(a, k): a shift to the right
roll_right(a, k) ==
    LET s == k % Len(a)
    IN  SubSeq(a, Len(a) - s + 1, Len(a)) \o SubSeq(a, 1, Len(a) - s)

\* np.roll(a, -k)
roll(a, k) ==
    LET s == k % Len(a)
    IN  SubSeq(a, s + 1, Len(a)) \o SubSeq(a, 1, s)

\* a rotation that starts every block at j
rotate_fs4_from_j(in_cmplx) ==
    [i \in 1..Len(in_cmplx) |->
        LET z == in_cmplx[i]
            m == i % 4
        IN  IF m = 0 THEN z
            ELSE IF m = 1 THEN <<-z[2], z[1]>>
            ELSE IF m = 2 THEN <<-z[1], -z[2]>>
            ELSE <<z[2], -z[1]>>]

\* rotate_fs4: sample 0, 1, 2, 3 of every four times 1, j, -1, -j
rotate_fs4(in_cmplx) ==
    [i \in 1..Len(in_cmplx) |->
        LET z == in_cmplx[i]
            m == (i - 1) % 4
        IN  IF m = 0 THEN z
            ELSE IF m = 1 THEN <<-z[2], z[1]>>
            ELSE IF m = 2 THEN <<-z[1], -z[2]>>
            ELSE <<z[2], -z[1]>>]

coeffs == <<2, 5, 12, 20, 23, 20, 12, 5, 2>>

\* fir9: the first n samples of np.convolve(in_cmplx, coeffs, mode='valid')
fir9(in_cmplx, n) ==
    [i \in 1..n |->
        <<in_cmplx[i][1] * coeffs[9] + in_cmplx[i + 1][1] * coeffs[8]
            + in_cmplx[i + 2][1] * coeffs[7] + in_cmplx[i + 3][1] * coeffs[6]
            + in_cmplx[i + 4][1] * coeffs[5] + in_cmplx[i + 5][1] * coeffs[4]
            + in_cmplx[i + 6][1] * coeffs[3] + in_cmplx[i + 7][1] * coeffs[2]
            + in_cmplx[i + 8][1] * coeffs[1],
          in_cmplx[i][2] * coeffs[9] + in_cmplx[i + 1][2] * coeffs[8]
            + in_cmplx[i + 2][2] * coeffs[7] + in_cmplx[i + 3][2] * coeffs[6]
            + in_cmplx[i + 4][2] * coeffs[5] + in_cmplx[i + 5][2] * coeffs[4]
            + in_cmplx[i + 6][2] * coeffs[3] + in_cmplx[i + 7][2] * coeffs[2]
            + in_cmplx[i + 8][2] * coeffs[1]>>]

\* discriminate: imag_n * real_np - real_n * imag_np, for each sample n and
\* its successor np
discriminate(in_cmplx) ==
    [i \in 1..(Len(in_cmplx) - 1) |->
        in_cmplx[i][2] * in_cmplx[i + 1][1] - in_cmplx[i][1] * in_cmplx[i + 1][2]]

\* quantize: the sign bit of each value
quantize(in_float) == [i \in 1..Len(in_float) |-> IF in_float[i] < 0 THEN 1 ELSE 0]

Zeros(n, z) == [i \in 1..n |-> z]

\* Demodulator.__init__
DemodulatorNew ==
    [raw_samples |-> Zeros(buffer_length, <<0, 0>>),
     iq |-> Zeros(block_size + 9, <<0, 0>>),
     filtered |-> Zeros(block_size + 1, <<0, 0>>),
     discriminated |-> Zeros(block_size * 2, 0),
     quantized |-> Zeros(buffer_length, 0)]

\* Demodulator._search: view_str.find(preamble_str, start), -1 when absent;
\* positions count from 0 as in the source
Matches(view, idx) ==
    \A k \in 1..Len(preamble) : view[idx + k] = preamble[k]

find(view, start) ==
    LET found == {idx \in start..(Len(view) - Len(preamble)) : Matches(view, idx)}
    IN  IF found = {} THEN -1
        ELSE CHOOSE idx \in found : \A other \in found : idx <= other

RECURSIVE search_view(_, _, _)
search_view(view, offset, start) ==
    LET idx == find(view, start)
    IN  IF idx = -1 THEN << >>
        ELSE <<idx * symbol_length + offset>>
                 \o search_view(view, offset, idx + 1)

\* quantized[offset::symbol_length]
View(quantized, offset) ==
    [j \in 1..((Len(quantized) - offset + symbol_length - 1) \div symbol_length) |->
        quantized[offset + (j - 1) * symbol_length + 1]]

\* a search over range(symbol_length - 1)
RECURSIVE search_without_last_offset(_, _)
search_without_last_offset(quantized, offset) ==
    IF offset >= symbol_length - 1 THEN << >>
    ELSE search_view(View(quantized, offset), offset, 0)
             \o search_without_last_offset(quantized, offset + 1)

RECURSIVE search_offsets(_, _)
search_offsets(quantized, offset) ==
    IF offset >= symbol_length THEN << >>
    ELSE search_view(View(quantized, offset), offset, 0)
             \o search_offsets(quantized, offset + 1)

search(dm) == search_offsets(dm.quantized, 0)

\* Demodulator._slice: the packets [index, data] of the candidates that pass
\* the gate, each byte string once
\* lines 159-162: the bits packed into (packet_symbols + 7) // 8 bytes, byte
\* by byte
\* a slicer that starts one symbol behind the candidate index
SliceReadNextSymbol(q_idx, i, L) == q_idx + ((i + 1) * L)

\* line 162: the index of quantized read for bit i of the candidate q_idx
SliceRead(q_idx, i, L) == q_idx + (i * L)

SlicePacket(quantized, q_idx) ==
    [b \in 1..((packet_symbols + 7) \div 8) |->
        PackBits([i \in 1..8 |->
                     quantized[SliceRead(q_idx, 8 * (b - 1) + i - 1,
                                         symbol_length) + 1]],
                 1, <<0>>)[1]]

\* a gate that lets the candidates of two blocks through
GateTwoBlocks(q_idx) == ~(q_idx > 2 * block_size)

Gate(q_idx) == ~(q_idx > block_size)

\* a slicer without the seen set
RECURSIVE slice_from_keeping_all(_, _, _, _, _)
slice_from_keeping_all(dm, found, i, seen, pkts) ==
    IF i > Len(found) THEN pkts
    ELSE LET q_idx == found[i]
             pkt == SlicePacket(dm.quantized, q_idx)
         IN  IF ~Gate(q_idx) \/ Len(pkt) = 0
             THEN slice_from_keeping_all(dm, found, i + 1, seen, pkts)
             ELSE slice_from_keeping_all(dm, found, i + 1, seen,
                                         Append(pkts, [index |-> q_idx, data |-> pkt]))

RECURSIVE slice_from(_, _, _, _, _)
slice_from(dm, indices, i, seen, packets) ==
    IF i > Len(indices) THEN packets
    ELSE LET q_idx == indices[i]
             pkt == SlicePacket(dm.quantized, q_idx)
         IN  IF ~Gate(q_idx) \/ pkt \in seen
             THEN slice_from(dm, indices, i + 1, seen, packets)
             ELSE slice_from(dm, indices, i + 1, seen \cup {pkt},
                             Append(packets, [index |-> q_idx, data |-> pkt]))

slice(dm, indices) == slice_from(dm, indices, 1, {}, << >>)

\* Demodulator.demodulate, in the stages of its body; each stage hands what it
\* computed to the next as an argument
\* lines 130-131: search and slice
demodulate_slice(after, found) ==
    [dm |-> after, raised |-> FALSE, indices |-> found,
     packets |-> slice(after, found)]

\* lines 119-128, behind the discriminator
demodulate_quantize(dm, raw_samples, iq, filtered, disc) ==
    LET after == [raw_samples |-> raw_samples,
                  iq |-> iq,
                  filtered |-> filtered,
                  discriminated |->
                      SubSeq(roll(dm.discriminated, block_size), 1, block_size)
                          \o disc,
                  quantized |->
                      SubSeq(roll(dm.quantized, block_size), 1,
                             buffer_length - block_size) \o quantize(disc)]
    IN  demodulate_slice(after, search(after))

demodulate_discriminate(dm, raw_samples, iq, filtered) ==
    demodulate_quantize(dm, raw_samples, iq, filtered, discriminate(filtered))

demodulate_fir9(dm, raw_samples, iq) ==
    demodulate_discriminate(dm, raw_samples, iq,
        SubSeq(roll(dm.filtered, block_size), 1, 1) \o fir9(iq, block_size))

demodulate_rotate(dm, raw_rolled, dest) ==
    demodulate_fir9(dm,
        SubSeq(raw_rolled, 1, buffer_length - block_size) \o dest,
        SubSeq(roll(dm.iq, block_size), 1, 9) \o rotate_fs4(dest))

\* Demodulator.demodulate on input_data = [complex, data]: the demodulator
\* after the call, whether it raised ValueError, and what it returned
demodulate(dm, input_data) ==
    LET raw_rolled == roll(dm.raw_samples, block_size)
        fits == IF input_data.complex
                THEN Len(input_data.data) = block_size
                ELSE Len(input_data.data) = block_size * 2
        dest == IF input_data.complex THEN input_data.data
                ELSE [i \in 1..block_size |->
                         <<lut(input_data.data[2 * i - 1]),
                           lut(input_data.data[2 * i])>>]
    IN  IF ~fits
        THEN [dm |-> [dm EXCEPT !.raw_samples = raw_rolled], raised |-> TRUE,
              indices |-> << >>, packets |-> << >>]
        ELSE demodulate_rotate(dm, raw_rolled, dest)

(***************************************************************************)
(* The sample streams fed to the demodulator: a carrier of constant        *)
(* frequency (every bit 0) that carries one frame, sent as 2-FSK with a    *)
(* phase step of 45 degrees per sample, symbol_length samples per bit; the *)
(* frame starts lead samples into the stream.                              *)
(***************************************************************************)
\* the bits of a byte string, most significant first
BitsOf(data) ==
    [i \in 1..(8 * Len(data)) |->
        (data[((i - 1) \div 8) + 1] \div (2 ^ (7 - ((i - 1) % 8)))) % 2]

\* a frame whose first payload bits repeat the preamble from its second bit
\* on, so that a second preamble begins on the last bit of the first
FrameTwoPreambles == SwapAll(PreambleBytes \o <<151, 18, 0, 0, 0, 0, 0, 0>>)

\* test_dsp.py lines 16-34 and 54: the preamble, the 2-byte header 00 00,
\* the payload and the CRC that line 27 computes
FrameTestDsp ==
    Header \o <<0, 0>> \o T1Payload \o CrcBytes(T1Payload \o <<0, 0>>)

StreamFrames == Frames \o <<FrameTwoPreambles, FrameTestDsp>>

\* the bits on the air for each frame: the bit-reversed bytes
AirBits == [f \in 1..Len(StreamFrames) |-> BitsOf(SwapAll(StreamFrames[f]))]

\* CumOnes[f][k + 1]: how many of the first k bits of frame f are 1
CumOnes ==
    [f \in 1..Len(StreamFrames) |->
        [k \in 1..(Len(AirBits[f]) + 1) |->
            Cardinality({j \in 1..(k - 1) : AirBits[f][j] = 1})]]

\* the samples that frame f takes on the air
AirLength(f) == Len(AirBits[f]) * symbol_length

\* bytes of the eight phases, as <<I, Q>>
PhaseBytes ==
    <<<<184, 127>>, <<167, 167>>, <<127, 184>>, <<87, 167>>,
      <<71, 127>>, <<87, 87>>, <<127, 71>>, <<167, 87>>>>

\* the bit sent at sample n (from 0) of the stream src = [frame, lead, complex]
TxBit(src, n) ==
    LET j == n - src.lead
    IN  IF j < 0 \/ j >= AirLength(src.frame) THEN 0
        ELSE AirBits[src.frame][(j \div symbol_length) + 1]

\* samples 0..n that carry a 1
TxOnes(src, n) ==
    LET j == n - src.lead
        s == j \div symbol_length
    IN  IF j < 0 THEN 0
        ELSE IF j >= AirLength(src.frame)
             THEN symbol_length * CumOnes[src.frame][Len(AirBits[src.frame]) + 1]
        ELSE symbol_length * CumOnes[src.frame][s + 1]
                 + AirBits[src.frame][s + 1] * ((j % symbol_length) + 1)

\* the <<I, Q>> bytes of sample n: the phase rises by 45 degrees for a 1 and
\* falls for a 0, on top of the quarter turn per sample that rotate_fs4 undoes
TxBytes(src, n) ==
    LET ph == 2 * TxOnes(src, n) - (n + 1)
    IN  PhaseBytes[((ph - 2 * (n % 4)) % 8) + 1]

\* block k (from 1) of the stream, as the driver hands it over
InputBlock(src, k) ==
    LET n0 == (k - 1) * block_size
        len == block_size
    IN  IF src.complex
        THEN [complex |-> TRUE,
              data |-> [i \in 1..len |->
                           LET b == TxBytes(src, n0 + i - 1)
                           IN  <<lut(b[1]), lut(b[2])>>]]
        ELSE [complex |-> FALSE,
              data |-> [i \in 1..(2 * len) |->
                           TxBytes(src, n0 + ((i - 1) \div 2))[((i - 1) % 2) + 1]]]

(***************************************************************************)
(* __main__.py: hop_task                                                   *)
(***************************************************************************)
MAX_MISSED == 50
Slack == 24        \* 0.3 s
EarlyLimit == 40   \* 0.5 s

VARIABLES
    station_id,     \* args.station_id
    mainPc,         \* main_async: "rand_hop", "tune", "except", "closed", "stream"
    p,              \* the Parser of the main process
    wp,             \* the Parser of the worker process
    wpc,            \* worker process: "none", "run", "stopped", "terminated"
    center_freq,    \* sdr.center_freq as last written, None before the first write
    tunes,          \* number of writes of sdr.center_freq
    data_queue,     \* blocks put by the stream loop, each the packets it slices to
    result_queue,   \* messages put by the worker
    blocks,         \* blocks streamed so far
    event,          \* packet_received_event
    pending,        \* set() calls since the event was last cleared
    ctl,            \* hop_task: "none", "scan_wait", "locked_wait", "dead"
    last_hop_time,
    missed_count,
    now,            \* time.time()
    last_pkts,      \* argument of the latest Parser.parse call
    last_msgs,      \* its result
    wake,           \* the latest wake-up of hop_task: what it ran, and how many
                    \* set() calls the event it cleared had collected
    closes,         \* calls of sdr.close()
    shutdown_log    \* the steps of the finally block of main_async, in order

\* the state of the receiver; vars adds the objects examined on their own
recvVars == <<station_id, mainPc, p, wp, wpc, center_freq, tunes, data_queue,
              result_queue, blocks, event, pending, ctl, last_hop_time,
              missed_count, now, last_pkts, last_msgs, wake, closes,
              shutdown_log>>

exitVars == <<closes, shutdown_log>>

VARIABLES
    parser,         \* a Parser driven through parse, next_hop and rand_hop
    hopped,         \* the latest Hop it returned, and the call that returned it
    ring,           \* per channel, the errors measured on it, oldest first
    nmeas,          \* parse calls made on it
    nhops           \* hop calls made on it

parserVars == <<parser, hopped, ring, nmeas, nhops>>

VARIABLES
    demodulator,    \* a Demodulator fed block after block
    src,            \* the stream it is fed from
    calls,          \* demodulate calls made on it
    indices,        \* what _search returned in the latest call
    packets,        \* what the latest call returned
    handled,        \* per call, the stream positions of the candidates that
                    \* passed the gate of _slice
    dparser,        \* the Parser that parses what demodulate returns
    messages        \* what the latest parse call returned

demodVars == <<demodulator, src, calls, indices, packets, handled, dparser,
               messages>>

VARIABLES
    pure_in,        \* the argument a function is applied to
    pure_out        \* what it returned

pureVars == <<pure_in, pure_out>>

VARIABLES
    rain_instance,  \* decoders/rain.py: _rain_total_decoder_instance
    rain_readings,  \* the readings decoded so far: station and byte 3
    rain_out        \* what the latest decode_rain_total call returned

rainVars == <<rain_instance, rain_readings, rain_out>>

\* everything but the receiver
otherVars == <<parserVars, demodVars, pureVars, rainVars>>

vars == <<recvVars, otherVars>>

target_next_hop_time == last_hop_time + dwell_time(station_id)
Deadline == target_next_hop_time + Slack

Min(a, b) == IF a < b THEN a ELSE b

NoWake == [kind |-> "none", signals |-> 0]
Woke(k, n) == [kind |-> k, signals |-> n]

NoHop == [kind |-> "none", hop |-> [channel_idx |-> 0, channel_freq |-> 0,
                                    freq_error |-> 0]]

\* the objects examined on their own, while the receiver is the subject
ParserIdle ==
    /\ parser = ParserNew(0) /\ hopped = NoHop /\ ring = << >>
    /\ nmeas = 0 /\ nhops = 0

DemodIdle ==
    /\ demodulator =
           [raw_samples |-> << >>, iq |-> << >>, filtered |-> << >>,
            discriminated |-> << >>, quantized |-> << >>]
    /\ src = [frame |-> 0, lead |-> 0, complex |-> FALSE]
    /\ calls = 0
    /\ indices = << >> /\ packets = << >> /\ handled = << >>
    /\ dparser = ParserNew(0) /\ messages = << >>

NoInput == [fn |-> "none", arg |-> 0, first |-> 0, n |-> 0]

PureIdle == pure_in = NoInput /\ pure_out = None

RainIdle ==
    rain_instance = NoInstance /\ rain_readings = << >> /\ rain_out = NoFloat

OthersIdle == ParserIdle /\ DemodIdle /\ PureIdle /\ RainIdle

InitMissed == {0, MAX_MISSED - 2, MAX_MISSED - 1}
\* the two blocks the worker has parsed before the cadence loop is examined
InitParsed == PktLists(1) \X PktLists(1)

(***************************************************************************)
(* Initial states.  Init is main_async about to run line 231.  The tasks   *)
(* are examined from their awaits: InitTasks is every task at its first    *)
(* await with the stream loop of line 342 running, InitLocked is hop_task  *)
(* at the head of its cadence loop (line 283) with the stream exhausted.   *)
(* tunes and center_freq count from the entry.                             *)
(***************************************************************************)
InitCommon ==
    /\ station_id \in StationIds
    /\ center_freq = None /\ tunes = 0
    /\ data_queue = << >>
    /\ event = FALSE /\ pending = 0
    /\ last_hop_time = 0 /\ now = 0
    /\ wake = NoWake
    /\ closes = 0 /\ shutdown_log = << >>
    /\ \E h \in InitHopIdx : p = ParserNew(h)
    /\ OthersIdle

InitStart ==
    /\ InitCommon
    /\ mainPc = "rand_hop" /\ ctl = "none" /\ wpc = "none"
    /\ wp = ParserNew(0)
    /\ result_queue = << >> /\ blocks = 0 /\ missed_count = 0
    /\ last_pkts = << >> /\ last_msgs = << >>

InitTasks ==
    /\ InitCommon
    /\ mainPc = "stream" /\ ctl = "scan_wait" /\ wpc = "run"
    /\ \E h \in InitHopIdx : wp = ParserNew(h)
    /\ result_queue = << >> /\ blocks = 0 /\ missed_count = 0
    /\ last_pkts = << >> /\ last_msgs = << >>

InitLocked ==
    /\ InitCommon
    /\ mainPc = "stream" /\ ctl = "locked_wait" /\ wpc = "run"
    /\ missed_count \in InitMissed
    /\ blocks = MaxBlocks
    /\ \E h \in InitHopIdx, pre \in InitParsed :
          LET r1 == parse(ParserNew(h), pre[1], station_id)
              r2 == parse(r1.parser, pre[2], station_id)
          IN  /\ wp = r2.parser
              /\ result_queue = r1.msgs \o r2.msgs
    /\ last_pkts = << >> /\ last_msgs = << >>

Init == InitStart

InitEntered == InitTasks \/ InitLocked

(***************************************************************************)
(* main_async                                                              *)
(***************************************************************************)
\* sdr.center_freq = h.channel_freq + h.freq_corr
Tune(h) ==
    IF AttributeError(h, "freq_corr")
    THEN UNCHANGED <<center_freq, tunes>>
    ELSE center_freq' = TuneValue(h) /\ tunes' = tunes + 1

\* lines 231-246, 264, 338: the scan draw and its tune, then the worker and tasks
MainScanTune ==
    /\ UNCHANGED <<otherVars, exitVars>>
    /\ mainPc = "rand_hop"
    /\ \E r \in RandInts :
          LET rh == rand_hop(p, r)
          IN  /\ p' = rh.parser
              /\ Tune(rh.hop)
              /\ IF AttributeError(rh.hop, "freq_corr")
                 THEN /\ mainPc' = "except"
                      /\ UNCHANGED <<wp, wpc, ctl>>
                 ELSE /\ mainPc' = "stream"
                      /\ wpc' = "run" /\ ctl' = "scan_wait"
                      /\ \E h \in RandInts : wp' = ParserNew(h)
    /\ UNCHANGED <<station_id, data_queue, result_queue, blocks, event,
                   pending, last_hop_time, missed_count, now, last_pkts,
                   last_msgs, wake>>

\* lines 347-370: except Exception, then finally with no task and no worker
MainFinally ==
    /\ UNCHANGED otherVars
    /\ mainPc = "except"
    /\ mainPc' = "closed"
    /\ closes' = closes + 1
    /\ shutdown_log' = Append(shutdown_log, "close")
    /\ UNCHANGED <<station_id, p, wp, wpc, center_freq, tunes, data_queue,
                   result_queue, blocks, event, pending, ctl, last_hop_time,
                   missed_count, now, last_pkts, last_msgs, wake>>

\* lines 342-343: one block from the driver is put on the data queue
StreamBlock ==
    /\ UNCHANGED <<otherVars, exitVars>>
    /\ mainPc = "stream"
    /\ blocks < MaxBlocks
    /\ \E pk \in PktLists(MaxPkts) : data_queue' = Append(data_queue, pk)
    /\ blocks' = blocks + 1
    /\ UNCHANGED <<station_id, mainPc, p, wp, wpc, center_freq, tunes,
                   result_queue, event, pending, ctl, last_hop_time,
                   missed_count, now, last_pkts, last_msgs, wake>>

(***************************************************************************)
(* worker.py: worker_main, one block                                       *)
(***************************************************************************)
\* __main__.py line 340: the samples of one buffer of sdr.stream
read_size == block_size

\* worker.py lines 62-64: the lengths of the chunks that a buffer of n
\* samples is cut into, and those of them that are handed to demodulate
chunks(n) ==
    [k \in 1..((n + block_size - 1) \div block_size) |->
        Min(block_size, n - (k - 1) * block_size)]

\* a buffer is one block: the packets of a queued block are those that its
\* chunk slices to, and a buffer without a full chunk is dropped unparsed
WorkerBlock ==
    /\ UNCHANGED <<otherVars, exitVars>>
    /\ wpc = "run"
    /\ data_queue # << >>
    /\ LET Full(c) == c = block_size
           r == IF Len(SelectSeq(chunks(read_size), Full)) = 1
                THEN parse(wp, Head(data_queue), station_id)
                ELSE [msgs |-> << >>, parser |-> wp]
       IN  /\ wp' = r.parser
           /\ result_queue' = result_queue \o r.msgs
           /\ last_pkts' = Head(data_queue)
           /\ last_msgs' = r.msgs
    /\ data_queue' = Tail(data_queue)
    /\ UNCHANGED <<station_id, mainPc, p, wpc, center_freq, tunes, blocks,
                   event, pending, ctl, last_hop_time, missed_count, now, wake>>

(***************************************************************************)
(* __main__.py: result_queue_reader, one message                           *)
(***************************************************************************)
ResultQueueReader ==
    /\ UNCHANGED <<otherVars, exitVars>>
    /\ mainPc = "stream"
    /\ result_queue # << >>
    /\ result_queue' = Tail(result_queue)
    /\ event' = TRUE
    /\ pending' = Min(pending + 1, MaxPending)
    /\ UNCHANGED <<station_id, mainPc, p, wp, wpc, center_freq, tunes,
                   data_queue, blocks, ctl, last_hop_time, missed_count, now,
                   last_pkts, last_msgs, wake>>

(***************************************************************************)
(* __main__.py: hop_task.  A wake-up runs the task from one await to the   *)
(* next; an exception raised on the way ends the task.                     *)
(***************************************************************************)
\* lines 274-278 and 331-335: the tune, then the log line that reads .transmitter
HopRaises(h) ==
    AttributeError(h, "freq_corr") \/ AttributeError(h, "transmitter")

\* lines 270-281: the first packet event after a scan tune
HopScanWake ==
    /\ UNCHANGED <<otherVars, exitVars>>
    /\ ctl = "scan_wait"
    /\ event
    /\ event' = FALSE /\ pending' = 0
    /\ wake' = Woke("scan", pending)
    /\ LET nh == next_hop(p)
       IN  /\ p' = nh.parser
           /\ Tune(nh.hop)
           /\ IF HopRaises(nh.hop)
              THEN ctl' = "dead" /\ UNCHANGED <<last_hop_time, missed_count>>
              ELSE /\ ctl' = "locked_wait"
                   /\ last_hop_time' = now
                   /\ missed_count' = 0
    /\ UNCHANGED <<station_id, mainPc, wp, wpc, data_queue, result_queue,
                   blocks, now, last_pkts, last_msgs>>

\* HopEarlyPacket with  last_hop_time = actual_hop_time  moved above line 299
HopEarlyPacketRestartsDwell ==
    /\ UNCHANGED <<otherVars, exitVars>>
    /\ ctl = "locked_wait"
    /\ event
    /\ now <= Deadline
    /\ now - target_next_hop_time < -EarlyLimit
    /\ event' = FALSE /\ pending' = 0
    /\ wake' = Woke("early", pending)
    /\ last_hop_time' = now
    /\ UNCHANGED <<station_id, mainPc, p, wp, wpc, center_freq, tunes,
                   data_queue, result_queue, blocks, ctl,
                   missed_count, now, last_pkts, last_msgs>>

\* HopEarlyPacket with a counting semaphore in place of the asyncio.Event
HopEarlyPacketCountsSignals ==
    /\ UNCHANGED <<otherVars, exitVars>>
    /\ ctl = "locked_wait"
    /\ event
    /\ now <= Deadline
    /\ now - target_next_hop_time < -EarlyLimit
    /\ event' = (pending > 1) /\ pending' = pending - 1
    /\ wake' = Woke("early", pending)
    /\ UNCHANGED <<station_id, mainPc, p, wp, wpc, center_freq, tunes,
                   data_queue, result_queue, blocks, ctl, last_hop_time,
                   missed_count, now, last_pkts, last_msgs>>

\* lines 290-303: a packet event with drift < -0.5 s
HopEarlyPacket ==
    /\ UNCHANGED <<otherVars, exitVars>>
    /\ ctl = "locked_wait"
    /\ event
    /\ now <= Deadline
    /\ now - target_next_hop_time < -EarlyLimit
    /\ event' = FALSE /\ pending' = 0
    /\ wake' = Woke("early", pending)
    /\ UNCHANGED <<station_id, mainPc, p, wp, wpc, center_freq, tunes,
                   data_queue, result_queue, blocks, ctl, last_hop_time,
                   missed_count, now, last_pkts, last_msgs>>

\* lines 290-310 and 330-335: a packet event with drift >= -0.5 s
HopOnTimePacket ==
    /\ UNCHANGED <<otherVars, exitVars>>
    /\ ctl = "locked_wait"
    /\ event
    /\ now <= Deadline
    /\ ~(now - target_next_hop_time < -EarlyLimit)
    /\ event' = FALSE /\ pending' = 0
    /\ wake' = Woke("ontime", pending)
    /\ last_hop_time' = now
    /\ missed_count' = 0
    /\ LET nh == next_hop(p)
       IN  /\ p' = nh.parser
           /\ Tune(nh.hop)
           /\ ctl' = IF HopRaises(nh.hop) THEN "dead" ELSE "locked_wait"
    /\ UNCHANGED <<station_id, mainPc, wp, wpc, data_queue, result_queue,
                   blocks, now, last_pkts, last_msgs>>

\* lines 311-316 and 328-335: the deadline expires, fewer than MAX_MISSED misses
HopTimeoutAdvance ==
    /\ UNCHANGED <<otherVars, exitVars>>
    /\ ctl = "locked_wait"
    /\ now >= Deadline
    /\ missed_count + 1 < MAX_MISSED
    /\ missed_count' = missed_count + 1
    /\ wake' = Woke("timeout", 0)
    /\ last_hop_time' = target_next_hop_time
    /\ LET nh == next_hop(p)
       IN  /\ p' = nh.parser
           /\ Tune(nh.hop)
           /\ ctl' = IF HopRaises(nh.hop) THEN "dead" ELSE "locked_wait"
    /\ UNCHANGED <<station_id, mainPc, wp, wpc, data_queue, result_queue,
                   blocks, event, pending, now, last_pkts, last_msgs>>

\* lines 311-326: the deadline expires for the MAX_MISSED-th time in a row
HopTimeoutRescan ==
    /\ UNCHANGED <<otherVars, exitVars>>
    /\ ctl = "locked_wait"
    /\ now >= Deadline
    /\ missed_count + 1 >= MAX_MISSED
    /\ missed_count' = missed_count + 1
    /\ wake' = Woke("rescan", 0)
    /\ \E r \in RandInts :
          LET rh == rand_hop(p, r)
          IN  /\ p' = rh.parser
              /\ Tune(rh.hop)
              /\ ctl' = IF AttributeError(rh.hop, "freq_corr")
                        THEN "dead" ELSE "scan_wait"
    /\ UNCHANGED <<station_id, mainPc, wp, wpc, data_queue, result_queue,
                   blocks, event, pending, last_hop_time, now, last_pkts,
                   last_msgs>>

\* the clock advances while hop_task waits in the cadence loop
Tick ==
    /\ UNCHANGED <<otherVars, exitVars>>
    /\ ctl = "locked_wait"
    /\ now < Deadline
    /\ now' = Min(now + TimeStep, Deadline)
    /\ UNCHANGED <<station_id, mainPc, p, wp, wpc, center_freq, tunes,
                   data_queue, result_queue, blocks, event, pending, ctl,
                   last_hop_time, missed_count, last_pkts, last_msgs, wake>>

(***************************************************************************)
(* __main__.py: shutdown.  The main task is cancelled in the stream loop   *)
(* and runs  except asyncio.CancelledError  and the finally block.         *)
(***************************************************************************)
\* hop_task_handle.cancel().  A task waiting in asyncio.wait_for whose inner
\* wait has already completed is ended by Python 3.12 and later, while
\* earlier versions return the result to it and drop the cancellation.
Cancelled(c) ==
    IF c = "scan_wait" THEN {"cancelled"}
    ELSE IF c = "locked_wait"
         THEN IF event THEN {"cancelled", "locked_wait"} ELSE {"cancelled"}
    ELSE {c}

\* lines 345-356: the tasks are cancelled, then the worker is sent the sentinel
MainShutdown ==
    /\ UNCHANGED otherVars
    /\ mainPc = "stream"
    /\ mainPc' = "joining"
    /\ ctl' \in Cancelled(ctl)
    /\ shutdown_log' = shutdown_log \o <<"cancel_hop", "stop_worker">>
    /\ UNCHANGED <<station_id, p, wp, wpc, center_freq, tunes, data_queue,
                   result_queue, blocks, event, pending, last_hop_time,
                   missed_count, now, last_pkts, last_msgs, wake, closes>>

\* a worker that takes the sentinel ahead of the blocks still queued
WorkerStopEarly ==
    /\ UNCHANGED otherVars
    /\ mainPc = "joining"
    /\ wpc = "run"
    /\ wpc' = "stopped"
    /\ mainPc' = "closing"
    /\ UNCHANGED <<station_id, p, wp, center_freq, tunes, data_queue,
                   result_queue, blocks, event, pending, ctl, last_hop_time,
                   missed_count, now, last_pkts, last_msgs, wake, exitVars>>

\* worker.py lines 41, 47-50: the worker gets the sentinel, which line 356 put
\* behind every block of the data queue, breaks, and join returns
WorkerStop ==
    /\ UNCHANGED otherVars
    /\ mainPc = "joining"
    /\ wpc = "run"
    /\ data_queue = << >>
    /\ wpc' = "stopped"
    /\ mainPc' = "closing"
    /\ UNCHANGED <<station_id, p, wp, center_freq, tunes, data_queue,
                   result_queue, blocks, event, pending, ctl, last_hop_time,
                   missed_count, now, last_pkts, last_msgs, wake, exitVars>>

\* __main__.py lines 357-359: the worker has not ended within 5 s and is
\* terminated, or the interrupt that stopped main_async ended it as well
\* (worker.py lines 44-45); the sentinel is not read
WorkerTerminate ==
    /\ UNCHANGED otherVars
    /\ mainPc = "joining"
    /\ wpc = "run"
    /\ wpc' = "terminated"
    /\ mainPc' = "closing"
    /\ UNCHANGED <<station_id, p, wp, center_freq, tunes, data_queue,
                   result_queue, blocks, event, pending, ctl, last_hop_time,
                   missed_count, now, last_pkts, last_msgs, wake, exitVars>>

\* a finally block that returns without sdr.close()
MainCloseKeepsDriver ==
    /\ mainPc = "closing"
    /\ mainPc' = "closed"
    /\ shutdown_log' = Append(shutdown_log, "close")
    /\ UNCHANGED <<otherVars, station_id, p, wp, wpc, center_freq, tunes,
                   data_queue, result_queue, blocks, event, pending, ctl,
                   last_hop_time, missed_count, now, last_pkts, last_msgs,
                   wake, closes>>

\* lines 360-370: sdr.stop(), sdr.close(), return; asyncio.run then cancels
\* the tasks that are left
MainClose ==
    /\ UNCHANGED otherVars
    /\ mainPc = "closing"
    /\ mainPc' = "closed"
    /\ closes' = closes + 1
    /\ shutdown_log' = Append(shutdown_log, "close")
    /\ ctl' = IF ctl \in {"scan_wait", "locked_wait"} THEN "cancelled" ELSE ctl
    /\ UNCHANGED <<station_id, p, wp, wpc, center_freq, tunes, data_queue,
                   result_queue, blocks, event, pending, last_hop_time,
                   missed_count, now, last_pkts, last_msgs, wake>>

\* main_async from line 231 on
Next ==
    \/ MainScanTune
    \/ MainFinally

\* the stream loop, the worker, the reader and hop_task
NextTasks ==
    \/ StreamBlock
    \/ WorkerBlock
    \/ ResultQueueReader
    \/ HopScanWake
    \/ HopEarlyPacket
    \/ HopOnTimePacket
    \/ HopTimeoutAdvance
    \/ HopTimeoutRescan
    \/ Tick
    \/ MainShutdown
    \/ WorkerStop
    \/ WorkerTerminate
    \/ MainClose

Spec == Init /\ [][Next]_vars

SpecTasks == InitEntered /\ [][NextTasks]_vars

\* both parts of main_async: the start of line 231 and the tasks behind it
InitAll == Init \/ InitEntered

NextAll == Next \/ NextTasks

SpecAll == InitAll /\ [][NextAll]_vars

(***************************************************************************)
(* protocol.py: a Parser on its own, driven through parse, next_hop and    *)
(* rand_hop.  ring keeps what was measured; the Parser keeps what the code *)
(* stores.                                                                 *)
(***************************************************************************)
\* the receiver, while another object is the subject
RecvIdle ==
    /\ station_id = None /\ mainPc = "none" /\ ctl = "none" /\ wpc = "none"
    /\ p = ParserNew(0) /\ wp = ParserNew(0)
    /\ center_freq = None /\ tunes = 0
    /\ data_queue = << >> /\ result_queue = << >> /\ blocks = 0
    /\ event = FALSE /\ pending = 0
    /\ last_hop_time = 0 /\ missed_count = 0 /\ now = 0
    /\ last_pkts = << >> /\ last_msgs = << >> /\ wake = NoWake
    /\ closes = 0 /\ shutdown_log = << >>

\* measured frequency errors, and the packets that carry them: a frame that
\* passes the CRC test of parse with each error, and one that fails it
ParserPackets ==
    {[data |-> SwapAll(FrameCodeLayout), ferr |-> 200],
     [data |-> SwapAll(FrameCodeBad), ferr |-> -70]}

InitParser ==
    /\ RecvIdle /\ DemodIdle /\ PureIdle /\ RainIdle
    /\ \E h \in InitHopIdx : parser = ParserNew(h)
    /\ hopped = NoHop /\ ring = << >> /\ nmeas = 0 /\ nhops = 0

\* the errors measured on channel c so far, oldest first
Measured(c) == IF c \in DOMAIN ring THEN ring[c] ELSE << >>

\* p.parse([pk]) for one sliced packet
ParserParse ==
    /\ nmeas < MaxMeas
    /\ \E pk \in ParserPackets :
          LET r == parse(parser, <<pk>>, None)
              c == HopPattern(parser.hop_idx)
          IN  /\ parser' = r.parser
              /\ ring' = IF r.msgs = << >> THEN ring
                         ELSE DictSet(ring, c, Append(Measured(c), pk.ferr))
    /\ nmeas' = nmeas + 1
    /\ UNCHANGED <<recvVars, demodVars, pureVars, rainVars, hopped, nhops>>

\* p.next_hop()
ParserNextHop ==
    /\ nhops < MaxHops
    /\ LET r == next_hop(parser)
       IN  parser' = r.parser /\ hopped' = [kind |-> "next", hop |-> r.hop]
    /\ nhops' = nhops + 1
    /\ UNCHANGED <<recvVars, demodVars, pureVars, rainVars, ring, nmeas>>

\* p.rand_hop()
ParserRandHop ==
    /\ nhops < MaxHops
    /\ \E i \in {7, 8, 50} :
          LET r == rand_hop(parser, i)
          IN  parser' = r.parser /\ hopped' = [kind |-> "rand", hop |-> r.hop]
    /\ nhops' = nhops + 1
    /\ UNCHANGED <<recvVars, demodVars, pureVars, rainVars, ring, nmeas>>

NextParser ==
    \/ ParserParse
    \/ ParserNextHop
    \/ ParserRandHop

SpecParser == InitParser /\ [][NextParser]_vars

(***************************************************************************)
(* dsp.py: a Demodulator on its own, fed the blocks of one stream the way  *)
(* worker_main feeds it, each result handed to Parser.parse.               *)
(***************************************************************************)
MaxCalls == 6

\* the frequency error that parse measures for a sliced frame
freq_error(pk) ==
    IF \E f \in 1..Len(Frames) : pk.data = SwapAll(Frames[f])
    THEN FreqErrs[CHOOSE f \in 1..Len(Frames) : pk.data = SwapAll(Frames[f])]
    ELSE 0

Measure(pkts) ==
    [i \in 1..Len(pkts) |->
        [index |-> pkts[i].index, data |-> pkts[i].data,
         ferr |-> freq_error(pkts[i])]]

InitDemod ==
    /\ RecvIdle /\ ParserIdle /\ PureIdle /\ RainIdle
    /\ demodulator = DemodulatorNew
    /\ src \in [frame : 1..Len(StreamFrames), lead : {16, 100, 498, 505, 510, 1000}, complex : BOOLEAN]
    /\ calls = 0
    /\ indices = << >> /\ packets = << >> /\ handled = << >>
    /\ dparser = ParserNew(7) /\ messages = << >>

\* the stream positions of the candidates of found that pass the gate of
\* _slice in call n: index q_idx of the buffers after n calls is sample
\* q_idx + n * block_size - buffer_length of the stream
Handled(found, n) ==
    {found[i] + n * block_size - buffer_length :
        i \in {j \in 1..Len(found) : Gate(found[j])}}

DemodReturned(r, m) ==
    /\ ~r.raised
    /\ demodulator' = r.dm
    /\ indices' = r.indices
    /\ packets' = r.packets
    /\ handled' = Append(handled, Handled(r.indices, calls + 1))
    /\ dparser' = m.parser
    /\ messages' = m.msgs

DemodParse(r) == DemodReturned(r, parse(dparser, Measure(r.packets), None))

\* worker.py lines 65-66: demodulate and parse one block
DemodBlock ==
    /\ calls < MaxCalls
    /\ DemodParse(demodulate(demodulator, InputBlock(src, calls + 1)))
    /\ calls' = calls + 1
    /\ UNCHANGED <<recvVars, parserVars, pureVars, rainVars, src>>

NextDemod == DemodBlock

SpecDemod == InitDemod /\ [][NextDemod]_vars

(***************************************************************************)
(* crc.py and protocol.py: CRC.checksum and swap_bit_order on their own,   *)
(* each applied to an argument and then to what the first call gives.      *)
(***************************************************************************)
MaxPayload == 8

MaxSymbolLength == 40

InitPure ==
    /\ RecvIdle /\ ParserIdle /\ DemodIdle /\ RainIdle
    /\ \/ \E n \in 0..MaxPayload : \E d \in [1..n -> {0, 130, 255}] :
              pure_in = [fn |-> "checksum", arg |-> d, first |-> d, n |-> 0]
       \/ \E b \in 0..255 :
              pure_in =
                  [fn |-> "swap_bit_order", arg |-> b, first |-> b, n |-> 0]
       \/ \E L \in 1..MaxSymbolLength :
              pure_in = [fn |-> "PacketConfig", arg |-> L, first |-> L, n |-> 0]
    /\ pure_out = None

\* crc.checksum(p)
PureChecksum ==
    /\ pure_in.fn = "checksum" /\ pure_in.n = 0
    /\ pure_out' = checksum(pure_in.arg)
    /\ pure_in' = [pure_in EXCEPT !.n = 1]
    /\ UNCHANGED <<recvVars, parserVars, demodVars, rainVars>>

\* crc.checksum(p + c.to_bytes(2, 'big')) for the c of the first call
PureChecksumFramed ==
    /\ pure_in.fn = "checksum" /\ pure_in.n = 1
    /\ LET framed == pure_in.arg \o <<pure_out \div 256, pure_out % 256>>
       IN  /\ pure_in' = [pure_in EXCEPT !.arg = framed, !.n = 2]
           /\ pure_out' = checksum(framed)
    /\ UNCHANGED <<recvVars, parserVars, demodVars, rainVars>>

\* swap_bit_order(b)
PureSwap ==
    /\ pure_in.fn = "swap_bit_order" /\ pure_in.n = 0
    /\ pure_out' = swap_bit_order(pure_in.arg)
    /\ pure_in' = [pure_in EXCEPT !.n = 1]
    /\ UNCHANGED <<recvVars, parserVars, demodVars, rainVars>>

\* swap_bit_order(swap_bit_order(b))
PureSwapAgain ==
    /\ pure_in.fn = "swap_bit_order" /\ pure_in.n = 1
    /\ pure_in' = [pure_in EXCEPT !.arg = pure_out, !.n = 2]
    /\ pure_out' = swap_bit_order(pure_out)
    /\ UNCHANGED <<recvVars, parserVars, demodVars, rainVars>>

\* PacketConfig(..., symbol_length = L, ...)
PurePacketConfig ==
    /\ pure_in.fn = "PacketConfig" /\ pure_in.n = 0
    /\ pure_out' = PacketConfig(pure_in.arg)
    /\ pure_in' = [pure_in EXCEPT !.n = 1]
    /\ UNCHANGED <<recvVars, parserVars, demodVars, rainVars>>

\* _slice, lines 155-162, for one candidate index under that configuration:
\* the indices of quantized that the loop reads
PureSliceReads ==
    /\ pure_in.fn = "PacketConfig" /\ pure_in.n = 1
    /\ \E q_idx \in {q \in {0, 1, 511, 512, 513, 1024} :
                        q < pure_out.buffer_length /\ Gate(q)} :
          /\ pure_in' = [fn |-> "_slice", arg |-> q_idx,
                         first |-> pure_in.first, n |-> 2]
          /\ pure_out' =
                 [buffer_length |-> pure_out.buffer_length,
                  reads |-> [i \in 1..packet_symbols |->
                                SliceRead(q_idx, i - 1, pure_out.symbol_length)]]
    /\ UNCHANGED <<recvVars, parserVars, demodVars, rainVars>>

NextPure ==
    \/ PureChecksum
    \/ PureChecksumFramed
    \/ PureSwap
    \/ PureSwapAgain
    \/ PurePacketConfig
    \/ PureSliceReads

SpecPure == InitPure /\ [][NextPure]_vars

(***************************************************************************)
(* decoders/rain.py: decode_rain_total on its own, called with the         *)
(* rain-total frames of one or another station.                            *)
(***************************************************************************)
MaxReadings == 3

InitRain ==
    /\ RecvIdle /\ ParserIdle /\ DemodIdle /\ PureIdle
    /\ rain_instance = NoInstance
    /\ rain_readings = << >>
    /\ rain_out = NoFloat

\* decode_rain_total(data, logger)
RainDecode ==
    /\ Len(rain_readings) < MaxReadings
    /\ \E st \in {0, 2}, b \in {41, 255, 5, 128} :
          \* a frame of sensor 0xE from station st with byte 3 = b
          LET r == decode_rain_total(
                       rain_instance, <<224 + st, 0, 0, b, 0, 0, 0, 0>>,
                       "logger")
          IN  /\ rain_instance' = r.self
              /\ rain_out' = r.out
              /\ rain_readings' =
                     Append(rain_readings, [station |-> st, byte |-> b])
    /\ UNCHANGED <<recvVars, parserVars, demodVars, pureVars>>

NextRain == RainDecode

SpecRain == InitRain /\ [][NextRain]_vars

(***************************************************************************)
(* Properties                                                              *)
(***************************************************************************)
\* the CRC over bytes 2..9 of a bit-reversed frame
PayloadCrc(data) == checksum(SubSeq(SwapAll(data), 3, 10))
\* the latest parse call emitted a message for its i-th packet
Emitted(i) == \E j \in 1..Len(last_msgs) : last_msgs[j].packet = last_pkts[i]

\* C1: with no station filter, Parser.parse emits a message for a sliced
\* frame if and only if the CRC-16-CCITT over bytes 2..9 of the bit-reversed
\* frame is zero.
C1_AcceptedIffPayloadCrcZero ==
    station_id = None =>
        \A i \in 1..Len(last_pkts) :
            Emitted(i) <=> PayloadCrc(last_pkts[i].data) = 0

\* a parse call that was given the over-the-air frame of test_dsp.py
C1_AirFrameParsed ==
    /\ station_id = None
    /\ ctl = "scan_wait" /\ blocks >= 1
    /\ \E i \in 1..Len(last_pkts) :
          /\ SwapAll(last_pkts[i].data) = FrameSpecLayout
          /\ PayloadCrc(last_pkts[i].data) = 0
          /\ ~Emitted(i)

\* hop_task observes the event in the cadence loop with drift >= -0.5 s
OnTimeWake ==
    /\ ctl = "locked_wait" /\ event /\ ~event'
    /\ now - target_next_hop_time >= -EarlyLimit
\* hop_task observes the event in the cadence loop with drift < -0.5 s
EarlyWake ==
    /\ ctl = "locked_wait" /\ event /\ ~event'
    /\ now - target_next_hop_time < -EarlyLimit
\* the wait of line 290 times out
DeadlineExpiry ==
    /\ ctl = "locked_wait" /\ event' = event
    /\ missed_count' # missed_count
NextIdx == (p.hop_idx + 1) % channel_count
HopIdxRange == 0..(channel_count - 1)

C3_ScanIssuesOneTune ==
    mainPc # "rand_hop" =>
        /\ tunes = 1
        /\ p.hop_idx \in HopIdxRange
        /\ ctl = "scan_wait"

C5_EarlyPacketDiscarded ==
    [][EarlyWake =>
          /\ p' = p
          /\ last_hop_time' = last_hop_time
          /\ missed_count' = missed_count
          /\ center_freq' = center_freq /\ tunes' = tunes
          /\ ctl' = "locked_wait"
          /\ Deadline' = Deadline]_vars

\* an early packet was discarded after the clock had moved
C5_EarlyPacketSeen ==
    /\ wake.kind = "early" /\ wake.signals >= 1
    /\ ctl = "locked_wait" /\ ~event
    /\ now > last_hop_time
    /\ now - target_next_hop_time < -EarlyLimit

PassesCrc(pk) == crc_ok(SwapAll(pk.data))
\* the worker takes a block off the data queue
WorkerStep == data_queue # << >> /\ data_queue' = Tail(data_queue)

\* C8: frames that fail the CRC test leave no trace: every queued message is
\* of a frame that passed it, a block is parsed to the same messages and the
\* same frequency-error memory as the block without them, and the event is
\* set only by a message taken off the result queue.
C8_BadCrcNothingDownstream ==
    /\ [](\A j \in 1..Len(result_queue) : PassesCrc(result_queue[j].packet))
    /\ [][/\ WorkerStep =>
                LET r == parse(wp, SelectSeq(Head(data_queue), PassesCrc),
                               station_id)
                IN  /\ wp' = r.parser
                    /\ result_queue' = result_queue \o r.msgs
          /\ (event' /\ (~event \/ pending' # pending)) =>
                /\ result_queue # << >>
                /\ result_queue' = Tail(result_queue)]_vars

\* the worker parsed a block of one failing and one passing frame
C8_BadFrameParsed ==
    /\ ctl = "scan_wait" /\ station_id = None
    /\ Len(last_pkts) = 2
    /\ ~PassesCrc(last_pkts[1]) /\ PassesCrc(last_pkts[2])
    /\ Len(last_msgs) = 1 /\ last_msgs[1].packet = last_pkts[2]
    /\ DOMAIN wp.channel_freq_err = {HopPattern(wp.hop_idx)}
    /\ wp.current_freq_err = last_pkts[2].ferr
    /\ ~event

\* C9: the event is one flag: observing it clears every signal collected
\* since the last observation in a single wake, that wake advances hop_idx
\* by at most one, and hop_idx moves only on a wake or a deadline expiry.
C9_OneWakePerFlag ==
    [][/\ (event /\ (~event' \/ pending' < pending)) =>
             /\ ~event' /\ pending' = 0
             /\ p'.hop_idx \in {p.hop_idx, NextIdx}
       /\ (p'.hop_idx # p.hop_idx /\ ~DeadlineExpiry) =>
             (event /\ ~event')]_vars

\* one wake consumed two signals and advanced hop_idx once
C9_TwoSignalsOneWake ==
    /\ wake.signals >= 2
    /\ wake.kind \in {"scan", "ontime"}
    /\ ~event /\ pending = 0

\* C10: when the worker has accepted a packet of a block, the channel the
\* hop controller is tuned to, pattern[hop_idx], has an entry in the
\* frequency-error memory the controller reads.
C10_ErrorStoredForController ==
    [][(WorkerStep /\ last_msgs' # << >>) =>
          HopPattern(p.hop_idx) \in DOMAIN p'.channel_freq_err]_vars

\* the 10 latest errors measured on channel c, oldest first, zeros before them
Ring10(c) ==
    LET m == Measured(c)
        n == Len(m)
    IN  [i \in 1..10 |-> IF i + n > 10 THEN m[i + n - 10] ELSE 0]

RECURSIVE WeightedFrom(_, _)
WeightedFrom(r, i) == IF i > Len(r) THEN 0 ELSE r[i] * i + WeightedFrom(r, i + 1)

\* a hop call returns
HopCall == nhops' # nhops

\* C11: the correction a hop returns for the new channel is the triangularly
\* weighted average of the 10 latest errors measured on it, weights 1..10
\* over 55 (to within rounding), so that 10 equal errors x give x.
C11_HopUsesWeightedRing ==
    [][HopCall =>
          LET w == WeightedFrom(Ring10(hopped'.hop.channel_idx), 1)
              d == 55 * hopped'.hop.freq_error - w
          IN  d > -55 /\ d < 55]_vars

ShutdownOrder == <<"cancel_hop", "stop_worker", "close">>

C14_TuneFailureStopsStream ==
    [][ctl = "dead" => blocks' = blocks]_vars

DemodCall == calls' # calls

\* the sample at stream position n, as demodulate stores it
TxSample(n) ==
    LET b == TxBytes(src, n)
    IN  <<lut(b[1]), lut(b[2])>>

\* samples by which the filter and the discriminator delay a bit
FilterDelay == 5

\* C15: after every demodulate call the raw-sample buffer and the quantized
\* buffer hold, below their last block, what they held one block further up
\* before the call, and in their last block what this call's input produced:
\* the samples of the block, and the bits they carry.
C15_BuffersSlideByOneBlock ==
    [][DemodCall =>
         LET keep == buffer_length - block_size
             n0 == calls * block_size
         IN  /\ SubSeq(demodulator'.raw_samples, 1, keep)
                    = SubSeq(demodulator.raw_samples, block_size + 1, buffer_length)
             /\ SubSeq(demodulator'.quantized, 1, keep)
                    = SubSeq(demodulator.quantized, block_size + 1, buffer_length)
             /\ \A i \in 1..block_size :
                    /\ demodulator'.raw_samples[keep + i] = TxSample(n0 + i - 1)
                    /\ demodulator'.quantized[keep + i]
                           = IF n0 + i - 1 < FilterDelay THEN 0
                             ELSE TxBit(src, n0 + i - 1 - FilterDelay)]_vars

C15_FrameSlidDown ==
    /\ calls = 3
    /\ \E i \in 1..(buffer_length - 2 * block_size) : demodulator.quantized[i] = 1
    /\ \E i \in (buffer_length - block_size + 1)..buffer_length :
           demodulator.quantized[i] = 1

\* the candidate indices m * L + o at which the preamble sits in the buffer
PreambleAt(quantized, o, m) ==
    /\ o + (m + Len(preamble) - 1) * symbol_length < Len(quantized)
    /\ \A k \in 0..(Len(preamble) - 1) :
           quantized[o + (m + k) * symbol_length + 1] = preamble[k + 1]

Occurrences(quantized) ==
    UNION {{m * symbol_length + o :
               m \in {b \in 0..(Len(quantized) \div symbol_length) :
                         PreambleAt(quantized, o, b)}} :
           o \in 0..(symbol_length - 1)}

\* C16: _search returns m * L + o for exactly the offsets o and bit positions
\* m at which the 16 preamble bits sit in the quantized buffer, L apart.
C16_SearchCompleteAndSound ==
    calls > 0 =>
        {indices[i] : i \in 1..Len(indices)} = Occurrences(demodulator.quantized)

C16_PreambleAtEveryOffset ==
    /\ calls > 0
    /\ \A o \in 0..(symbol_length - 1) :
           \E i \in 1..Len(indices) : indices[i] % symbol_length = o

\* C17: no preamble occurrence of the stream passes the gate of _slice in
\* two demodulate calls.
C17_EachOccurrenceSlicedOnce ==
    \A i, j \in 1..Len(handled) : i < j => handled[i] \cap handled[j] = {}

\* C18: one _slice call returns no two packets with the same bytes, and one
\* parse call returns no two messages for the same bit-reversed frame.
C18_OnePacketOneMessagePerFrame ==
    /\ \A i, j \in 1..Len(packets) :
           i # j => packets[i].data # packets[j].data
    /\ \A i, j \in 1..Len(messages) :
           i # j => SwapAll(messages[i].packet.data)
                        # SwapAll(messages[j].packet.data)

C18_ManyCandidatesOneMessage ==
    /\ calls > 0
    /\ Cardinality(handled[Len(handled)]) >= 2
    /\ Len(packets) = 1
    /\ Len(messages) = 1

\* C19: for every payload p, the checksum of p followed by the two bytes of
\* checksum(p), high byte first, is 0.
C19_ChecksumOfFramedPayloadIsZero ==
    pure_in.fn = "checksum" /\ pure_in.n = 2 => pure_out = 0

C19_EightBytesFramed ==
    /\ pure_in.fn = "checksum" /\ pure_in.n = 2
    /\ Len(pure_in.first) = 8
    /\ Len(pure_in.arg) = 10
    /\ pure_in.arg[9] # 0 /\ pure_in.arg[10] # 0

Bit(b, i) == (b \div (2 ^ i)) % 2

\* C20: swap_bit_order maps every byte b to the byte whose bit i is bit 7 - i
\* of b, and applied twice it returns b.
C20_SwapReversesAndUndoesItself ==
    pure_in.fn = "swap_bit_order" =>
        /\ pure_in.n = 1 =>
               /\ pure_out \in 0..255
               /\ \A i \in 0..7 : Bit(pure_out, i) = Bit(pure_in.arg, 7 - i)
        /\ pure_in.n = 2 => pure_out = pure_in.first

C20_AsymmetricByteSwappedTwice ==
    /\ pure_in.fn = "swap_bit_order" /\ pure_in.n = 2
    /\ pure_in.first = 130
    /\ pure_in.arg = 65
    /\ pure_out = 130

\* the reading that test_dsp.py expects of its frame
IsT1Message(m) ==
    /\ m.sensor = 8 /\ m.id = 2
    /\ m.wind_speed = 0 /\ m.wind_direction = 0
    /\ m.temperature # NoFloat
    /\ m.temperature.num = 75 * m.temperature.den

\* the latest demodulate call sliced the frame of test_dsp.py at its preamble
TestFrameSliced ==
    /\ StreamFrames[src.frame] = FrameTestDsp
    /\ \E i \in 1..Len(packets) :
           packets[i].data = SwapAll(SubSeq(FrameTestDsp, 1, 10))

\* C21: when the stream carries the preamble followed by the bits of 00 00,
\* the payload 82 00 00 02 EE 00 and its CRC, the call that slices the frame
\* yields a message with sensor TEMPERATURE, station 2, wind speed 0, wind
\* direction 0 and temperature 75.0 F.
C21_TestStreamYieldsTemperature ==
    TestFrameSliced => \E i \in 1..Len(messages) : IsT1Message(messages[i])

C21_TestFrameSlicedNoMessage ==
    TestFrameSliced /\ messages = << >>

\* the fields of the bit-reversed frame that Parser.parse reads
MsgId(pk) == BitAnd(SwapAll(pk.data)[1], 7)
SensorId(pk) == SwapAll(pk.data)[1] \div 16
PassesFilter(pk) == station_id = None \/ MsgId(pk) = station_id

\* the Message that records the raw nibble of packet pk
IsRawMessage(m, pk) ==
    /\ m.packet = pk
    /\ m.sensor = None /\ m.raw_sensor_id = SensorId(pk)
    /\ m.id = MsgId(pk)
    /\ m.wind_speed = SwapAll(pk.data)[2]
    /\ m.wind_direction = SwapAll(pk.data)[3]

Clicks(readings, i) == readings[i].byte % 128

\* c_0 plus the sum of (c_j - c_(j-1)) mod 128 over the readings 2..k
RECURSIVE CumulativeClicks(_, _)
CumulativeClicks(readings, k) ==
    IF k = 0 THEN 0
    ELSE IF k = 1 THEN Clicks(readings, 1)
    ELSE CumulativeClicks(readings, k - 1)
             + ((Clicks(readings, k) - Clicks(readings, k - 1) + 128) % 128)

\* C23: after every reading the rain-total decoder returns the cumulative
\* click count of the readings so far: c_0, plus the sum of the differences
\* (c_j - c_(j-1)) mod 128.
C23_ReturnsCumulativeClicks ==
    rain_readings # << >> =>
        /\ rain_out # NoFloat
        /\ rain_out.num
               = CumulativeClicks(rain_readings, Len(rain_readings)) * rain_out.den

\* the first reading of rain_test.py, byte 0x29
C23_FirstReadingInHundredths ==
    /\ rain_readings = <<[station |-> 0, byte |-> 41]>>
    /\ rain_instance.total_clicks = 41
    /\ rain_out = Float(41, 100)

\* the readings of the station that the latest reading came from
OwnReadings ==
    LET b == rain_readings[Len(rain_readings)].station
        Own(r) == r.station = b
    IN  SelectSeq(rain_readings, Own)

\* C24: the total returned for a station depends on that station's readings
\* only: it is the total, in the unit decode returns, of the station's own
\* sequence of readings, whatever was decoded for other stations in between.
C24_TotalDependsOnOwnReadings ==
    rain_readings # << >> =>
        rain_out = Float(CumulativeClicks(OwnReadings, Len(OwnReadings)), 100)

\* station 2 reads 5 after station 0 read 127
C24_OtherStationMovedTotal ==
    /\ rain_readings = <<[station |-> 0, byte |-> 255], [station |-> 2, byte |-> 5]>>
    /\ rain_instance.total_clicks = 133
    /\ rain_out = Float(133, 100)

\* C25: for every symbol length L, buffer_length is a multiple of block_size
\* and the smallest one that exceeds packet_length + block_size, which is
\* (packet_length \div block_size + 2) * block_size: 2048 for L = 14.
C25_BufferLengthFloorPlusTwoBlocks ==
    (pure_in.fn = "PacketConfig" /\ pure_in.n = 1) =>
        /\ pure_out.buffer_length % block_size = 0
        /\ pure_out.buffer_length > pure_out.packet_length + block_size
        /\ pure_out.buffer_length - block_size
               <= pure_out.packet_length + block_size

C25_Length14Gives2048 ==
    /\ pure_in.fn = "PacketConfig" /\ pure_in.n = 1
    /\ pure_in.arg = 14
    /\ pure_out.packet_length = 1120
    /\ pure_out.buffer_length = 2048

\* C25 as stated: buffer_length is ceil(80 * L / 512 + 2) * 512, a multiple
\* of block_size.
C25_BufferLengthCeiling ==
    (pure_in.fn = "PacketConfig" /\ pure_in.n = 1) =>
        /\ pure_out.buffer_length
               = ((80 * pure_in.arg + 511) \div 512 + 2) * 512
        /\ pure_out.buffer_length % block_size = 0

\* C29: every index that _slice reads for a candidate that passes its gate
\* lies inside the quantized buffer, for every symbol length.
C29_SliceReadsInsideBuffer ==
    pure_in.fn = "_slice" =>
        \A i \in 1..Len(pure_out.reads) :
            /\ 0 <= pure_out.reads[i]
            /\ pure_out.reads[i] < pure_out.buffer_length

C29_LastBitOfLastCandidate ==
    /\ pure_in.fn = "_slice"
    /\ pure_in.first = 14 /\ pure_in.arg = 512
    /\ pure_out.reads[80] = 1618
    /\ pure_out.buffer_length = 2048

\* C26: the worker takes the queued blocks in the order they were put, each
\* buffer being one chunk of block_size samples that is demodulated and
\* parsed; blocks are only ever added at the tail, and none once the
\* sentinel is queued; and the worker reads the sentinel, and stops, only
\* when every block queued ahead of it has been taken and parsed.
C26_WorkerDrainsQueueInOrder ==
    [][/\ Len(data_queue') < Len(data_queue) =>
             /\ wpc = "run"
             /\ data_queue' = Tail(data_queue)
             /\ chunks(read_size) = <<block_size>>
             /\ last_pkts' = Head(data_queue)
             /\ last_msgs' = parse(wp, Head(data_queue), station_id).msgs
             /\ result_queue' = result_queue \o last_msgs'
       /\ Len(data_queue') > Len(data_queue) =>
             /\ mainPc = "stream"
             /\ SubSeq(data_queue', 1, Len(data_queue)) = data_queue
             /\ Len(data_queue') = Len(data_queue) + 1
       /\ (wpc = "run" /\ wpc' = "stopped") =>
             /\ mainPc = "joining"
             /\ data_queue = << >>]_vars

\* the worker stopped on the sentinel after it parsed two blocks that were
\* both queued when the shutdown began
C26_StoppedAfterBacklog ==
    /\ wpc = "stopped"
    /\ blocks = 2 /\ data_queue = << >>
    /\ last_pkts # << >> /\ last_msgs # << >>
    /\ Len(shutdown_log) >= 2
    /\ result_queue # << >>

\* z times j^m
RECURSIVE TimesJPow(_, _)
TimesJPow(z, m) ==
    IF m % 4 = 0 THEN z
    ELSE <<-TimesJPow(z, m - 1)[2], TimesJPow(z, m - 1)[1]>>

\* C27: after every demodulate call the rotated buffer holds, for the block
\* of the call and the 9 samples kept from the block before it, sample n of
\* the whole stream times j^(n mod 4), n counted from the first call.
C27_RotationFollowsStreamIndex ==
    calls > 0 =>
        \A k \in 1..Len(demodulator.iq) :
            LET n == (calls - 1) * block_size - 9 + (k - 1)
            IN  demodulator.iq[k]
                    = IF n < 0 THEN <<0, 0>> ELSE TimesJPow(TxSample(n), n % 4)

\* the last sample of the first block is turned by -j, the first of the
\* second block is left as it is
C27_SecondBlockContinuesPattern ==
    /\ calls = 2
    /\ demodulator.iq[9] = <<TxSample(511)[2], -TxSample(511)[1]>>
    /\ demodulator.iq[10] = TxSample(512)
    /\ demodulator.iq[11] = <<-TxSample(513)[2], TxSample(513)[1]>>

\* C28: every packet that demodulate returns begins with the preamble: its
\* first 16 bits are 1100101110001001, its first two bytes CB 89, and the
\* bit-reversed frame that Parser.parse examines begins D3 91.
C28_PacketsBeginWithPreamble ==
    \A i \in 1..Len(packets) :
        /\ SubSeq(BitsOf(packets[i].data), 1, preamble_symbols) = preamble
        /\ SubSeq(packets[i].data, 1, 2) = <<203, 137>>
        /\ SubSeq(SwapAll(packets[i].data), 1, 2) = <<211, 145>>

\* a call returned two packets, sliced at different candidates
C28_TwoPacketsReturned ==
    /\ Len(packets) = 2
    /\ packets[1].data # packets[2].data
    /\ packets[1].index # packets[2].index

====
